---- MODULE Spec2Model ----
(***************************************************************************)
(* mysql-mcp: the execute_sql tool of the read-only MySQL MCP server.      *)
(*                                                                         *)
(* A query is a sequence of one-character strings.  isSafeQuery is         *)
(* modelled character by character (trim, toLowerCase, the two literal-    *)
(* stripping replaces, the includes tests and the 23 regular expressions   *)
(* of the forbidden list); the execute_sql handler is modelled as a        *)
(* process per call that validates synchronously and then awaits           *)
(* pool.query.                                                             *)
(***************************************************************************)
EXTENDS Integers, Sequences, FiniteSets, TLC

VARIABLES requests, calls, dbLog

vars == <<requests, calls, dbLog>>

\* ------------------------------------------------------------------ bounds
\* number of body fragments a generated query is made of (SpecClassify)
MaxFrags == 3
\* number of execute_sql calls that may be in flight together (Spec)
NumCalls == 2

CallIds == 1..NumCalls

\* -------------------------------------------------------------- characters
UpperAlpha ==
  <<"A","B","C","D","E","F","G","H","I","J","K","L","M",
    "N","O","P","Q","R","S","T","U","V","W","X","Y","Z">>

LowerAlpha ==
  <<"a","b","c","d","e","f","g","h","i","j","k","l","m",
    "n","o","p","q","r","s","t","u","v","w","x","y","z">>

Digits == {"0","1","2","3","4","5","6","7","8","9"}

\* the regular-expression class \w
WordChars ==
  {UpperAlpha[i] : i \in 1..26} \cup {LowerAlpha[i] : i \in 1..26}
    \cup Digits \cup {"_"}

IsWordChar(c) == c \in WordChars

\* the regular-expression class \s, also what String.prototype.trim strips
\* (its ASCII members; the vertical tab and the Unicode spaces behave alike)
IsSpace(c) == c \in {" ", "\t", "\n", "\r", "\f"}

\* the character at position p, or the empty string outside the text
CharAt(s, p) == IF p \in 1..Len(s) THEN s[p] ELSE ""

\* ------------------------------------------------------- string primitives
LowerOf == [c \in {UpperAlpha[k] : k \in 1..26} |->
              LowerAlpha[CHOOSE k \in 1..26 : UpperAlpha[k] = c]]

toLowerCase(s) ==
  [i \in 1..Len(s) |-> IF s[i] \in DOMAIN LowerOf THEN LowerOf[s[i]] ELSE s[i]]

trim(s) ==
  LET keep == {i \in 1..Len(s) : ~IsSpace(s[i])}
  IN IF keep = {} THEN <<>>
     ELSE LET lo == CHOOSE i \in keep : \A j \in keep : i <= j
              hi == CHOOSE i \in keep : \A j \in keep : j <= i
          IN SubSeq(s, lo, hi)

\* s has the text w at position p
LiteralAt(s, p, w) ==
  /\ p >= 1
  /\ p + Len(w) - 1 <= Len(s)
  /\ \A k \in 1..Len(w) : s[p + k - 1] = w[k]

startsWith(s, w) == LiteralAt(s, 1, w)

includes(s, w) == \E p \in 1..Len(s) : LiteralAt(s, p, w)

\* s.replace(/X[^X]*X/g, "XX") for the quote character X: scanning left to
\* right, a quote that has a later quote of the same kind is replaced,
\* together with everything up to the nearest one, by two quotes; any other
\* character is copied.
RECURSIVE replaceQuoted(_, _)
replaceQuoted(s, qc) ==
  IF s = <<>> THEN <<>>
  ELSE IF s[1] = qc /\ \E j \in 2..Len(s) : s[j] = qc
       THEN LET j == CHOOSE j \in 2..Len(s) :
                        s[j] = qc /\ \A k \in 2..(j - 1) : s[k] # qc
            IN <<qc, qc>> \o replaceQuoted(SubSeq(s, j + 1, Len(s)), qc)
       ELSE <<s[1]>> \o replaceQuoted(Tail(s), qc)

\* q.replace(/'[^']*'/g, "''").replace(/"[^"]*"/g, '""')
withoutStringsOf(q) == replaceQuoted(replaceQuoted(q, "'"), "\"")

\* ------------------------------------------------------ regular expressions
\* \b at the gap before position p
WordBoundary(s, p) == IsWordChar(CharAt(s, p - 1)) # IsWordChar(CharAt(s, p))

\* \s* (min = 0) or \s+ (min = 1) starting at p: the positions at which the
\* run of white space may stop
SpaceRunEnds(s, p, min) ==
  {e \in (p + min)..(Len(s) + 1) : \A k \in p..(e - 1) : IsSpace(s[k])}

\* /\bW\b/
TestWord(s, w) ==
  \E p \in 1..Len(s) :
    /\ LiteralAt(s, p, w)
    /\ WordBoundary(s, p)
    /\ WordBoundary(s, p + Len(w))

\* /\bW\b(?!\s*\()/
TestWordNotCall(s, w) ==
  \E p \in 1..Len(s) :
    /\ LiteralAt(s, p, w)
    /\ WordBoundary(s, p)
    /\ WordBoundary(s, p + Len(w))
    /\ ~ \E e \in SpaceRunEnds(s, p + Len(w), 0) : CharAt(s, e) = "("

\* /\bW\b(?=\s+\w)/
TestWordThenWord(s, w) ==
  \E p \in 1..Len(s) :
    /\ LiteralAt(s, p, w)
    /\ WordBoundary(s, p)
    /\ WordBoundary(s, p + Len(w))
    /\ \E e \in SpaceRunEnds(s, p + Len(w), 1) : IsWordChar(CharAt(s, e))

\* /\bW\s+V\b/
TestPhrase(s, w, v) ==
  \E p \in 1..Len(s) :
    /\ LiteralAt(s, p, w)
    /\ WordBoundary(s, p)
    /\ \E e \in SpaceRunEnds(s, p + Len(w), 1) :
         /\ LiteralAt(s, e, v)
         /\ WordBoundary(s, e + Len(v))

\* /\bW\s+Vs?\b/
TestPhrasePlural(s, w, v) ==
  \E p \in 1..Len(s) :
    /\ LiteralAt(s, p, w)
    /\ WordBoundary(s, p)
    /\ \E e \in SpaceRunEnds(s, p + Len(w), 1) :
         /\ LiteralAt(s, e, v)
         /\ \/ CharAt(s, e + Len(v)) = "s" /\ WordBoundary(s, e + Len(v) + 1)
            \/ WordBoundary(s, e + Len(v))

\* the forbidden list, in the order of the source
forbidden ==
  << [kind |-> "word",     w |-> <<"i","n","s","e","r","t">>],
     [kind |-> "notcall",  w |-> <<"u","p","d","a","t","e">>],
     [kind |-> "notcall",  w |-> <<"d","e","l","e","t","e">>],
     [kind |-> "word",     w |-> <<"d","r","o","p">>],
     [kind |-> "notcall",  w |-> <<"c","r","e","a","t","e">>],
     [kind |-> "word",     w |-> <<"a","l","t","e","r">>],
     [kind |-> "word",     w |-> <<"t","r","u","n","c","a","t","e">>],
     [kind |-> "notcall",  w |-> <<"r","e","p","l","a","c","e">>],
     [kind |-> "word",     w |-> <<"g","r","a","n","t">>],
     [kind |-> "word",     w |-> <<"r","e","v","o","k","e">>],
     [kind |-> "notcall",  w |-> <<"s","e","t">>],
     [kind |-> "thenword", w |-> <<"u","s","e">>],
     [kind |-> "word",     w |-> <<"c","o","m","m","i","t">>],
     [kind |-> "word",     w |-> <<"r","o","l","l","b","a","c","k">>],
     [kind |-> "tables",   w |-> <<"l","o","c","k">>],
     [kind |-> "tables",   w |-> <<"u","n","l","o","c","k">>],
     [kind |-> "word",     w |-> <<"c","a","l","l">>],
     [kind |-> "word",     w |-> <<"e","x","e","c","u","t","e">>],
     [kind |-> "word",     w |-> <<"p","r","e","p","a","r","e">>],
     [kind |-> "word",     w |-> <<"d","e","a","l","l","o","c","a","t","e">>],
     [kind |-> "word",     w |-> <<"l","o","a","d">>],
     [kind |-> "outfile",  w |-> <<"i","n","t","o">>],
     [kind |-> "dumpfile", w |-> <<"i","n","t","o">>] >>

\* pattern.test(withoutStrings)
test(pattern, s) ==
  CASE pattern.kind = "word"     -> TestWord(s, pattern.w)
    [] pattern.kind = "notcall"  -> TestWordNotCall(s, pattern.w)
    [] pattern.kind = "thenword" -> TestWordThenWord(s, pattern.w)
    [] pattern.kind = "tables"   ->
         TestPhrasePlural(s, pattern.w, <<"t","a","b","l","e">>)
    [] pattern.kind = "outfile"  ->
         TestPhrase(s, pattern.w, <<"o","u","t","f","i","l","e">>)
    [] pattern.kind = "dumpfile" ->
         TestPhrase(s, pattern.w, <<"d","u","m","p","f","i","l","e">>)

\* ------------------------------------------------------------- isSafeQuery
\* which statement of isSafeQuery returns, for the query text given
isSafeQueryExit(query) ==
  LET q == toLowerCase(trim(query))
      withoutStrings == withoutStringsOf(q)
  IN IF ~startsWith(q, <<"s","e","l","e","c","t">>) THEN "notSelect"
     ELSE IF includes(withoutStrings, <<";">>) THEN "semicolon"
     ELSE IF \/ includes(withoutStrings, <<"-","-">>)
             \/ includes(withoutStrings, <<"/","*">>) THEN "comment"
     ELSE IF \E k \in 1..Len(forbidden) : test(forbidden[k], withoutStrings)
          THEN "forbidden"
     ELSE "safe"

isSafeQuery(query) == isSafeQueryExit(query) = "safe"

\* -------------------------------------------------------------- responses
NoResponse == [isError |-> FALSE, text |-> "none"]

\* a validation failure that is not flagged as an error
ValidationErrorUnflagged ==
  [isError |-> FALSE,
   text |-> "Only SELECT queries are allowed. The query must not contain modifying statements, semicolons, or SQL comments."]

\* the object returned when validation fails
ValidationError ==
  [isError |-> TRUE,
   text |-> "Only SELECT queries are allowed. The query must not contain modifying statements, semicolons, or SQL comments."]

\* the object returned with the rows of a query that succeeded
RowsResponse == [isError |-> FALSE, text |-> "rows"]

\* the object returned when pool.query rejects
DatabaseError == [isError |-> TRUE, text |-> "database error message"]

\* ------------------------------------------------------------------ inputs
\* the query texts a client sends in the concurrent specification: the
\* examples of the tool's documentation and of its validation rules
SampleQueries ==
  { \* SELECT UPDATE(d,'x')
    <<"S","E","L","E","C","T"," ","U","P","D","A","T","E","(","d",",","'","x","'",")">>,
    \* SELECT 1; DROP TABLE t
    <<"S","E","L","E","C","T"," ","1",";"," ","D","R","O","P"," ","T","A","B","L","E"," ","t">>,
    \* select 'a;b'
    <<"s","e","l","e","c","t"," ","'","a",";","b","'">>,
    \* UPDATE t SET x=1
    <<"U","P","D","A","T","E"," ","t"," ","S","E","T"," ","x","=","1">>,
    \*  \tSelect 1\n
    <<" ","\t","S","e","l","e","c","t"," ","1","\n">>,
    \* select 1 -- DROP
    <<"s","e","l","e","c","t"," ","1"," ","-","-"," ","D","R","O","P">> }

\* how a generated query starts
Heads ==
  { <<"S","E","L","E","C","T"," ">>,
    <<" ","s","e","l","e","c","t">>,
    <<"U","P","D","A","T","E"," ">>,
    <<>>,
    <<" ","\n">> }

\* the pieces a generated query continues with
BodyFrags ==
  { <<" ">>,
    <<";">>,
    <<"-","-">>,
    <<"/","*">>,
    <<"(">>,
    <<"'","d","r","o","p",";","-","-","'">>,
    <<"'">>,
    <<"\"","'","\"">>,
    <<"U","P","D","A","T","E">>,
    <<"l","o","c","k">>,
    <<"t","a","b","l","e","s">>,
    <<"u","s","e">>,
    <<"o","f","f","s","e","t">>,
    <<"s","e","t"," ","(">> }

\* the queries of the classification specification: a head followed by at
\* most MaxFrags pieces
RECURSIVE Bodies(_)
Bodies(n) ==
  IF n = 0 THEN {<<>>}
  ELSE Bodies(n - 1) \cup {b \o f : b \in Bodies(n - 1), f \in BodyFrags}

GeneratedQueries == {h \o b : h \in Heads, b \in Bodies(MaxFrags)}

\* ------------------------------------------------------------------- state
\* requests[i]: the query argument of the i-th tools/call request as the
\*   client sent it (NoRequest before it is sent)
\* calls[i]: one invocation of the execute_sql callback
\*   pc       "idle" (not yet invoked), "received" (arguments bound),
\*            "awaiting" (suspended in await pool.query), "done" (returned)
\*   query    the string the caller supplied
\*   response the object the callback returned
\* dbLog: every <<call, text>> handed to pool.query
IdleCall == [pc |-> "idle", query |-> <<>>, response |-> NoResponse]

NoRequest == <<"(no request)">>

Init ==
  /\ requests = [i \in CallIds |-> NoRequest]
  /\ calls = [i \in CallIds |-> IdleCall]
  /\ dbLog = {}

\* the classification specification starts with one call whose query is
\* drawn from the generated queries
InitClassify ==
  /\ \E q \in GeneratedQueries :
       /\ requests = [i \in CallIds |-> IF i = 1 THEN q ELSE NoRequest]
       /\ calls = [i \in CallIds |->
                    IF i = 1 THEN [pc |-> "received", query |-> q,
                                   response |-> NoResponse]
                    ELSE IdleCall]
  /\ dbLog = {}

\* ----------------------------------------------------------------- actions
\* the server invokes the registered callback with the validated arguments
Receive(i, q) ==
  /\ calls[i].pc = "idle"
  /\ requests' = [requests EXCEPT ![i] = q]
  /\ calls' = [calls EXCEPT ![i] = [pc |-> "received", query |-> q,
                                    response |-> NoResponse]]
  /\ UNCHANGED dbLog

\* a callback that calls pool.query whatever isSafeQuery answers
HandleUngated(i) ==
  /\ calls[i].pc = "received"
  /\ calls' = [calls EXCEPT ![i].pc = "awaiting"]
  /\ dbLog' = dbLog \cup {<<i, calls[i].query>>}
  /\ UNCHANGED requests

\* a callback that forwards the trimmed, lower-cased copy of the query
HandleForwardsNormalized(i) ==
  /\ calls[i].pc = "received"
  /\ IF ~isSafeQuery(calls[i].query)
     THEN /\ calls' = [calls EXCEPT ![i].pc = "done",
                                    ![i].response = ValidationError]
          /\ UNCHANGED dbLog
     ELSE /\ calls' = [calls EXCEPT ![i].pc = "awaiting"]
          /\ dbLog' = dbLog \cup {<<i, toLowerCase(trim(calls[i].query))>>}
  /\ UNCHANGED requests

\* the callback up to its first suspension: validate, then either return
\* the validation error or call pool.query with the caller's text
Handle(i) ==
  /\ calls[i].pc = "received"
  /\ IF ~isSafeQuery(calls[i].query)
     THEN /\ calls' = [calls EXCEPT ![i].pc = "done",
                                    ![i].response = ValidationError]
          /\ UNCHANGED dbLog
     ELSE /\ calls' = [calls EXCEPT ![i].pc = "awaiting"]
          /\ dbLog' = dbLog \cup {<<i, calls[i].query>>}
  /\ UNCHANGED requests

\* pool.query resolves: the rows are returned
DbResolve(i) ==
  /\ calls[i].pc = "awaiting"
  /\ calls' = [calls EXCEPT ![i].pc = "done", ![i].response = RowsResponse]
  /\ UNCHANGED <<requests, dbLog>>

\* pool.query rejects: the catch block returns the error message
DbReject(i) ==
  /\ calls[i].pc = "awaiting"
  /\ calls' = [calls EXCEPT ![i].pc = "done", ![i].response = DatabaseError]
  /\ UNCHANGED <<requests, dbLog>>

Next ==
  \E i \in CallIds :
    \/ \E q \in SampleQueries : Receive(i, q)
    \/ Handle(i)
    \/ DbResolve(i)
    \/ DbReject(i)

Spec == Init /\ [][Next]_vars

NextClassify ==
  \E i \in CallIds :
    \/ Handle(i)
    \/ DbResolve(i)
    \/ DbReject(i)

SpecClassify == InitClassify /\ [][NextClassify]_vars

TypeOK ==
  /\ \A i \in CallIds :
       /\ calls[i].pc \in {"idle", "received", "awaiting", "done"}
       /\ calls[i].response \in
            {NoResponse, ValidationError, RowsResponse, DatabaseError}
  /\ \A e \in dbLog : e[1] \in CallIds

\* ------------------------------------------------- outcome of a single call
\* the callback has passed its validation step
Decided(i) == calls[i].pc \in {"awaiting", "done"}

\* pool.query was invoked for call i
Allowed(i) == \E e \in dbLog : e[1] = i

\* call i returned the error response and the database was never touched
Rejected(i) ==
  /\ calls[i].pc = "done"
  /\ calls[i].response.isError
  /\ ~Allowed(i)

\* ------------------------------ the quoted regions the claims are stated on
\* The left-to-right scan of the specification, restricted to its quote
\* modes: a region opens at a quote met in Normal mode and closes at the
\* next quote of the same kind that is not doubled; a quote of the other
\* kind inside a region is ordinary content.  InRegionFrom gives, for each
\* position from p on, whether the character belongs to a region.
RECURSIVE InRegionFrom(_, _, _)
InRegionFrom(s, p, mode) ==
  IF p > Len(s) THEN <<>>
  ELSE IF mode = "Normal"
       THEN IF s[p] = "'"
            THEN <<TRUE>> \o InRegionFrom(s, p + 1, "InSingleQuote")
            ELSE IF s[p] = "\""
                 THEN <<TRUE>> \o InRegionFrom(s, p + 1, "InDoubleQuote")
                 ELSE <<FALSE>> \o InRegionFrom(s, p + 1, "Normal")
       ELSE LET qc == IF mode = "InSingleQuote" THEN "'" ELSE "\""
            IN IF s[p] = qc
               THEN IF CharAt(s, p + 1) = qc
                    THEN <<TRUE, TRUE>> \o InRegionFrom(s, p + 2, mode)
                    ELSE <<TRUE>> \o InRegionFrom(s, p + 1, "Normal")
               ELSE <<TRUE>> \o InRegionFrom(s, p + 1, mode)

\* the mode in which the scan ends
RECURSIVE EndModeFrom(_, _, _)
EndModeFrom(s, p, mode) ==
  IF p > Len(s) THEN mode
  ELSE IF mode = "Normal"
       THEN IF s[p] = "'" THEN EndModeFrom(s, p + 1, "InSingleQuote")
            ELSE IF s[p] = "\"" THEN EndModeFrom(s, p + 1, "InDoubleQuote")
                 ELSE EndModeFrom(s, p + 1, "Normal")
       ELSE LET qc == IF mode = "InSingleQuote" THEN "'" ELSE "\""
            IN IF s[p] = qc
               THEN IF CharAt(s, p + 1) = qc
                    THEN EndModeFrom(s, p + 2, mode)
                    ELSE EndModeFrom(s, p + 1, "Normal")
               ELSE EndModeFrom(s, p + 1, mode)

\* every quoted region of the query is closed
LiteralsClosed(s) == EndModeFrom(s, 1, "Normal") = "Normal"

\* the query in lower case with every character of a quoted region replaced
\* by an inert placeholder (not a word character, white space or bracket)
OutsideLiterals(s) ==
  LET in == InRegionFrom(s, 1, "Normal")
      low == toLowerCase(s)
  IN [i \in 1..Len(s) |-> IF in[i] THEN "#" ELSE low[i]]

\* the first token of the query: after the leading white space, the
\* maximal run of letters, digits and underscores, in lower case
FirstToken(s) ==
  LET keep == {i \in 1..Len(s) : ~IsSpace(s[i])}
      lo == IF keep = {} THEN Len(s) + 1
            ELSE CHOOSE i \in keep : \A j \in keep : i <= j
      stop == {e \in lo..(Len(s) + 1) : ~IsWordChar(CharAt(s, e))}
      hi == CHOOSE e \in stop : \A f \in stop : e <= f
  IN toLowerCase(SubSeq(s, lo, hi - 1))

IsSelectStatement(s) == FirstToken(s) = <<"s","e","l","e","c","t">>

\* the single-word tokens of the forbidden set and those with the
\* function-call exemption
ForbiddenWords == {forbidden[k].w : k \in 1..21}

CallableWords ==
  {forbidden[k].w : k \in {n \in 1..21 : forbidden[n].kind = "notcall"}}

\* the two-word phrases of the forbidden set occur in the text m
PhraseOccurs(m) ==
  \/ TestPhrase(m, <<"i","n","t","o">>, <<"o","u","t","f","i","l","e">>)
  \/ TestPhrase(m, <<"i","n","t","o">>, <<"d","u","m","p","f","i","l","e">>)

\* a forbidden token occurs in m as a whole word and is not a function call
\* of one of the callable words
ForbiddenOccurs(m) ==
  \/ \E w \in ForbiddenWords \ CallableWords : TestWord(m, w)
  \/ \E w \in CallableWords : TestWordNotCall(m, w)
  \/ PhraseOccurs(m)

\* a forbidden token occurs in m as a whole word, function call or not
AnyForbiddenWord(m) ==
  \/ \E w \in ForbiddenWords : TestWord(m, w)
  \/ PhraseOccurs(m)

\* a callable word occurs in m as a function call: a whole word followed
\* by optional white space and an open parenthesis
CallOccurs(m) ==
  \E w \in CallableWords : \E p \in 1..Len(m) :
    /\ LiteralAt(m, p, w)
    /\ WordBoundary(m, p)
    /\ WordBoundary(m, p + Len(w))
    /\ \E e \in SpaceRunEnds(m, p + Len(w), 0) : CharAt(m, e) = "("

\* a forbidden word occurs in m inside a longer identifier
SubstringOccurs(m) ==
  \E w \in ForbiddenWords : \E p \in 1..Len(m) :
    /\ LiteralAt(m, p, w)
    /\ \/ IsWordChar(CharAt(m, p - 1))
       \/ IsWordChar(CharAt(m, p + Len(w)))

\* no semicolon and no comment marker outside the quoted regions
NoSeparatorOrComment(m) ==
  /\ ~includes(m, <<";">>)
  /\ ~includes(m, <<"-","-">>)
  /\ ~includes(m, <<"/","*">>)

\* ------------------------------------------------------------------ claims
\* C1 (hard gate): under every interleaving of concurrent calls, pool.query
\* has been invoked for a call only if isSafeQuery holds of that call's
\* query; a call whose query fails isSafeQuery has returned the error
\* response and never reached the database.
C1_HardGate ==
  \A i \in CallIds :
    /\ Allowed(i) => isSafeQuery(calls[i].query)
    /\ (Decided(i) /\ ~isSafeQuery(calls[i].query)) => Rejected(i)

\* a rejected call has returned while another call is suspended in pool.query
C1_Witness ==
  \E i, j \in CallIds :
    /\ i # j
    /\ calls[i].pc = "awaiting"
    /\ Rejected(j)
    /\ ~isSafeQuery(calls[j].query)

\* C2: every query with a semicolon outside all quoted regions of the
\* specification's scan is rejected.
C2_UnmaskedSemicolonRejected ==
  \A i \in CallIds :
    (Decided(i) /\ includes(OutsideLiterals(calls[i].query), <<";">>))
      => Rejected(i)

\* C3 (verb gate): every query whose first token is not SELECT, in any
\* letter case, is rejected.
C3_VerbGate ==
  \A i \in CallIds :
    (Decided(i) /\ ~IsSelectStatement(calls[i].query)) => Rejected(i)

\* C4: every SELECT query in which a token of the forbidden set occurs as a
\* whole word outside quoted literals, and is not a function call of
\* update, delete, create, replace or set, is rejected whatever follows the
\* token.  The literals are taken as isSafeQuery itself strips them.
C4_ForbiddenTokenRejected ==
  \A i \in CallIds :
    (/\ Decided(i)
     /\ IsSelectStatement(calls[i].query)
     /\ ForbiddenOccurs(withoutStringsOf(toLowerCase(trim(calls[i].query)))))
      => Rejected(i)

\* C5: every query with a comment marker (-- or /*) outside all quoted
\* regions of the specification's scan is rejected.
C5_UnmaskedCommentRejected ==
  \A i \in CallIds :
    (/\ Decided(i)
     /\ \/ includes(OutsideLiterals(calls[i].query), <<"-","-">>)
        \/ includes(OutsideLiterals(calls[i].query), <<"/","*">>))
      => Rejected(i)

\* C6: a SELECT query whose literals are closed and whose text outside the
\* quoted regions of the specification's scan has no semicolon, comment
\* marker or forbidden token is allowed, whatever the literals contain.
C6_LiteralContentsInert ==
  \A i \in CallIds :
    (/\ Decided(i)
     /\ IsSelectStatement(calls[i].query)
     /\ LiteralsClosed(calls[i].query)
     /\ NoSeparatorOrComment(OutsideLiterals(calls[i].query))
     /\ ~AnyForbiddenWord(OutsideLiterals(calls[i].query)))
      => Allowed(i)

\* C7 (function-call exemption): a SELECT query with closed literals, no
\* unmasked semicolon or comment marker, and whose forbidden tokens outside
\* literals are all function calls of update, delete, create, replace or
\* set (at least one) is allowed; a SELECT query with one of these five as
\* a whole word not followed by an open parenthesis is rejected.
C7_FunctionCallExemption ==
  \A i \in CallIds :
    /\ (/\ Decided(i)
        /\ IsSelectStatement(calls[i].query)
        /\ LiteralsClosed(calls[i].query)
        /\ NoSeparatorOrComment(OutsideLiterals(calls[i].query))
        /\ CallOccurs(OutsideLiterals(calls[i].query))
        /\ ~ForbiddenOccurs(OutsideLiterals(calls[i].query)))
         => Allowed(i)
    /\ (/\ Decided(i)
        /\ IsSelectStatement(calls[i].query)
        /\ \E w \in CallableWords :
             TestWordNotCall(OutsideLiterals(calls[i].query), w))
         => Rejected(i)

\* C8 (whole-word matching): a SELECT query with closed literals, no
\* unmasked semicolon or comment marker, and whose forbidden tokens outside
\* literals occur only inside longer identifiers (at least once) is allowed.
C8_WholeWordMatching ==
  \A i \in CallIds :
    (/\ Decided(i)
     /\ IsSelectStatement(calls[i].query)
     /\ LiteralsClosed(calls[i].query)
     /\ NoSeparatorOrComment(OutsideLiterals(calls[i].query))
     /\ SubstringOccurs(OutsideLiterals(calls[i].query))
     /\ ~AnyForbiddenWord(OutsideLiterals(calls[i].query)))
      => Allowed(i)

\* C9 (no rewriting): the text handed to pool.query is, character for
\* character, the query the client sent, and the callback's query is still
\* that text after classification.
C9_NoRewriting ==
  \A i \in CallIds :
    /\ Decided(i) => calls[i].query = requests[i]
    /\ \A e \in dbLog : e[1] = i => e[2] = requests[i]

\* a query that trimming and lower-casing would change has reached pool.query
C9_Witness ==
  \E e \in dbLog :
    /\ e[2] = requests[e[1]]
    /\ toLowerCase(trim(e[2])) # e[2]

====
